---- MODULE Spec2Model ----
(***************************************************************************)
(* chart2melodics: a drum-chart MIDI file is read into a tick-indexed      *)
(* event table without note-offs, rewritten by an ordered list of passes,  *)
(* and written back with synthetic note-offs and delta times.              *)
(*                                                                         *)
(* A message is a record [type, note, velocity, channel, time]; the type   *)
(* "meta" stands for every message that is neither note_on nor note_off    *)
(* (the code never reads the note, velocity or channel of such a message). *)
(* An event is [tick, track, msg]; the event table maps each tick that     *)
(* holds an event to the list of its events.                               *)
(***************************************************************************)
EXTENDS Integers, Sequences, FiniteSets, TLC

VARIABLES tpb, input, pc, events, log, wr, file, step

vars == <<tpb, input, pc, events, log, wr, file, step>>

EXPECTED_TPB == 96

DEFAULT_DURATION == 8

\* Bounds of the model.
MaxTracks == 2

MaxMsgs == 2

MaxPasses == 2

(***************************************************************************)
(* Helpers on sequences.                                                   *)
(***************************************************************************)
RECURSIVE Flatten(_)
Flatten(ss) ==
    IF Len(ss) = 0 THEN <<>> ELSE Head(ss) \o Flatten(Tail(ss))

RECURSIVE SortedSeq(_)
SortedSeq(S) ==
    IF S = {} THEN <<>>
    ELSE LET m == CHOOSE x \in S : \A y \in S : x <= y
         IN  <<m>> \o SortedSeq(S \ {m})

\* The elements of s whose index is not in idx, in order.
DropIndices(s, idx) ==
    LET F[i \in 0..Len(s)] ==
            IF i = 0 THEN <<>>
            ELSE IF i \in idx THEN F[i - 1] ELSE Append(F[i - 1], s[i])
    IN  F[Len(s)]

IsNoteOn(e) == e.msg.type = "note_on"

(***************************************************************************)
(* STEP 1: read_midi_events                                                *)
(***************************************************************************)
RECURSIVE AbsTime(_, _)
AbsTime(track, k) ==
    IF k = 0 THEN 0 ELSE AbsTime(track, k - 1) + track[k].time

\* A mutant: note_off messages are retained as well.
RetainedAll(msg) == TRUE

Retained(msg) == msg.type # "note_off"

TrackEvents(track, track_index) ==
    LET all == [k \in 1..Len(track) |->
                   [tick |-> AbsTime(track, k), track |-> track_index,
                    msg |-> track[k]]]
    IN  SelectSeq(all, LAMBDA e : Retained(e.msg))

TpbAccepted(ticks_per_beat) == ticks_per_beat = EXPECTED_TPB

read_midi_events(tracks) ==
    LET evs == Flatten([i \in 1..Len(tracks) |-> TrackEvents(tracks[i], i - 1)])
        ticks == {evs[k].tick : k \in 1..Len(evs)}
    IN  [t \in ticks |-> SelectSeq(evs, LAMBDA e : e.tick = t)]

(***************************************************************************)
(* STEP 2: the rewrite passes                                              *)
(***************************************************************************)
CompositeTick(evs, match_notes, replace_with) ==
    LET note_ons == SelectSeq(evs, IsNoteOn)
        other_events == SelectSeq(evs, LAMBDA e : ~IsNoteOn(e))
        found_indices == {i \in 1..Len(note_ons) :
                             note_ons[i].msg.note \in match_notes}
    IN  IF Cardinality(found_indices) = Cardinality(match_notes)
        THEN LET b == CHOOSE i \in found_indices :
                        \A j \in found_indices :
                           \/ note_ons[i].msg.note < note_ons[j].msg.note
                           \/ /\ note_ons[i].msg.note = note_ons[j].msg.note
                              /\ i <= j
                 new_event == [note_ons[b] EXCEPT !.msg.note = replace_with]
             IN  DropIndices(note_ons, found_indices)
                    \o <<new_event>> \o other_events
        ELSE evs

replace_composite_notes(T, match_notes, replace_with) ==
    [t \in DOMAIN T |-> CompositeTick(T[t], match_notes, replace_with)]

SingleNoteEvent(e, from_note, to_note) ==
    IF IsNoteOn(e) /\ e.msg.note = from_note
    THEN [e EXCEPT !.msg.note = to_note] ELSE e

replace_single_note(T, from_note, to_note) ==
    [t \in DOMAIN T |-> [k \in 1..Len(T[t]) |->
        SingleNoteEvent(T[t][k], from_note, to_note)]]

NoteIfVelocityEvent(e, from_note, from_vel, to_note) ==
    IF IsNoteOn(e) /\ e.msg.note = from_note /\ e.msg.velocity = from_vel
    THEN [e EXCEPT !.msg.note = to_note, !.msg.velocity = 100] ELSE e

replace_note_if_velocity(T, from_note, from_vel, to_note) ==
    [t \in DOMAIN T |-> [k \in 1..Len(T[t]) |->
        NoteIfVelocityEvent(T[t][k], from_note, from_vel, to_note)]]

VelocityIfVelocityEvent(e, from_vel, to_vel) ==
    IF IsNoteOn(e) /\ e.msg.velocity = from_vel
    THEN [e EXCEPT !.msg.velocity = to_vel] ELSE e

replace_velocity_if_velocity(T, from_vel, to_vel) ==
    [t \in DOMAIN T |-> [k \in 1..Len(T[t]) |->
        VelocityIfVelocityEvent(T[t][k], from_vel, to_vel)]]

TrackEvent(e, from_track, to_track) ==
    IF e.track = from_track THEN [e EXCEPT !.track = to_track] ELSE e

replace_track(T, from_track, to_track) ==
    [t \in DOMAIN T |-> [k \in 1..Len(T[t]) |->
        TrackEvent(T[t][k], from_track, to_track)]]

NoteTrackEvent(e, notes, to_track) ==
    IF IsNoteOn(e) /\ e.msg.note \in notes
    THEN [e EXCEPT !.track = to_track] ELSE e

replace_note_track(T, notes, to_track) ==
    [t \in DOMAIN T |-> [k \in 1..Len(T[t]) |->
        NoteTrackEvent(T[t][k], notes, to_track)]]

\* The hits of assign_hands_for_note: the note-ons with note in notes, by
\* ascending tick and, within a tick, in list order.
note_hits(T, notes) ==
    LET ticks == SortedSeq(DOMAIN T)
        AtTick(t) ==
            SelectSeq([k \in 1..Len(T[t]) |-> [tick |-> t, idx |-> k]],
                      LAMBDA h : /\ IsNoteOn(T[t][h.idx])
                                 /\ T[t][h.idx].msg.note \in notes)
    IN  Flatten([i \in 1..Len(ticks) |-> AtTick(ticks[i])])

IsStrong(tick) ==
    LET subdivision == tick % EXPECTED_TPB
    IN  subdivision = 0 \/ subdivision = EXPECTED_TPB \div 2

\* A mutant: the strong hit before a sixteenth gets the default (left) hand.
HitTrackLeftOnly(hits, i, old_track, left_track, right_track) ==
    IF ~IsStrong(hits[i].tick)
       \/ (i + 1 <= Len(hits)
           /\ hits[i + 1].tick - hits[i].tick = EXPECTED_TPB \div 4)
    THEN left_track ELSE old_track

\* A mutant: every hit is given a hand, the strong hits without a sixteenth
\* after them the default (left) one.
HitTrackAlways(hits, i, old_track, left_track, right_track) ==
    IF IsStrong(hits[i].tick) /\ i + 1 <= Len(hits)
       /\ hits[i + 1].tick - hits[i].tick = EXPECTED_TPB \div 4
    THEN right_track ELSE left_track

\* The track of hit i after the pass.
HitTrack(hits, i, old_track, left_track, right_track) ==
    LET tick == hits[i].tick
        is_strong == IsStrong(tick)
        is_weak_next == /\ is_strong
                        /\ i + 1 <= Len(hits)
                        /\ hits[i + 1].tick - tick = EXPECTED_TPB \div 4
        hand_track == IF is_weak_next THEN right_track ELSE left_track
    IN  IF (is_strong /\ is_weak_next) \/ ~is_strong
        THEN hand_track ELSE old_track

assign_hands_for_note(T, notes, left_track, right_track) ==
    LET hits == note_hits(T, notes)
        HitNo(t, k) == {i \in 1..Len(hits) : hits[i] = [tick |-> t, idx |-> k]}
    IN  [t \in DOMAIN T |-> [k \in 1..Len(T[t]) |->
            IF HitNo(t, k) = {} THEN T[t][k]
            ELSE LET i == CHOOSE i \in HitNo(t, k) : TRUE
                 IN  [T[t][k] EXCEPT !.track =
                        HitTrack(hits, i, T[t][k].track, left_track, right_track)]]]

FlamMatches(e, from_note, from_vel) ==
    IsNoteOn(e) /\ e.msg.note = from_note /\ e.msg.velocity = from_vel

\* A mutant: the inserted left-hand event keeps the matched velocity.
FlamLeftEventKeepVel(e, tick, to_note, left_track) ==
    [msg |-> [e.msg EXCEPT !.note = to_note], track |-> left_track, tick |-> tick]

FlamLeftEvent(e, tick, to_note, left_track) ==
    [msg |-> [e.msg EXCEPT !.note = to_note, !.velocity = 100],
     track |-> left_track, tick |-> tick]

FlamTick(evs, tick, from_note, from_vel, to_note, left_track, right_track) ==
    LET matched == SelectSeq(evs, LAMBDA e : FlamMatches(e, from_note, from_vel))
        new_events == [k \in 1..Len(matched) |->
                          FlamLeftEvent(matched[k], tick, to_note, left_track)]
        rewritten == [k \in 1..Len(evs) |->
            IF FlamMatches(evs[k], from_note, from_vel)
            THEN [evs[k] EXCEPT !.msg.note = to_note, !.msg.velocity = 100,
                                !.track = right_track]
            ELSE evs[k]]
    IN  rewritten \o new_events

detect_flam(T, from_note, from_vel, to_note, left_track, right_track) ==
    [t \in DOMAIN T |->
        FlamTick(T[t], t, from_note, from_vel, to_note, left_track, right_track)]

(***************************************************************************)
(* STEP 3: write_midi.  An output track is [name, msgs]; setting a track's  *)
(* name is kept as the name field of the track.                            *)
(***************************************************************************)
\* All events in ascending tick order, each tick's events in list order.
EventsInTickOrder(T) ==
    LET ticks == SortedSeq(DOMAIN T)
    IN  Flatten([i \in 1..Len(ticks) |-> T[ticks[i]]])

track_events(T, track_index) ==
    SelectSeq(EventsInTickOrder(T), LAMBDA e : e.track = track_index)

\* A mutant: the synthetic note_off is placed at the tick of its note_on.
NoteOffAtSameTick(tick, msg) ==
    [tick |-> tick,
     msg |-> [type |-> "note_off", note |-> msg.note, velocity |-> 0,
              channel |-> msg.channel, time |-> 0]]

\* The synthetic note_off of a note_on, as an entry of flat_events.
SyntheticNoteOff(tick, msg) ==
    [tick |-> tick + DEFAULT_DURATION,
     msg |-> [type |-> "note_off", note |-> msg.note, velocity |-> 0,
              channel |-> msg.channel, time |-> 0]]

RECURSIVE flat_events(_)
flat_events(evs) ==
    IF Len(evs) = 0 THEN <<>>
    ELSE LET e == Head(evs)
             own == <<[tick |-> e.tick, msg |-> e.msg]>>
         IN  (IF e.msg.type = "note_on"
              THEN own \o <<SyntheticNoteOff(e.tick, e.msg)>> ELSE own)
             \o flat_events(Tail(evs))

\* A mutant: an entry is put before the entries of its own tick.
InsertBeforeEqual(sorted, x) ==
    LET before == SelectSeq(sorted, LAMBDA y : y.tick < x.tick)
        after == SelectSeq(sorted, LAMBDA y : y.tick >= x.tick)
    IN  before \o <<x>> \o after

\* x put into a list sorted by tick, behind the entries of its own tick.
InsertByTick(sorted, x) ==
    LET before == SelectSeq(sorted, LAMBDA y : y.tick <= x.tick)
        after == SelectSeq(sorted, LAMBDA y : y.tick > x.tick)
    IN  before \o <<x>> \o after

\* list.sort(key = tick): a stable sort.
SortByTick(flat) ==
    LET F[i \in 0..Len(flat)] ==
            IF i = 0 THEN <<>> ELSE InsertByTick(F[i - 1], flat[i])
    IN  F[Len(flat)]

\* The messages with their delta times; last_tick starts at 0.
WithDeltas(sorted) ==
    [k \in 1..Len(sorted) |->
        [sorted[k].msg EXCEPT !.time =
            sorted[k].tick - (IF k = 1 THEN 0 ELSE sorted[k - 1].tick)]]

TrackIds(T) == UNION {{T[t][k].track : k \in 1..Len(T[t])} : t \in DOMAIN T}

EmittedIds(T, in_track) ==
    SortedSeq({i \in TrackIds(T) : ~(in_track >= 0 /\ i # in_track)})

BuildTracks(T, in_track) ==
    LET ids == EmittedIds(T, in_track)
    IN  [i \in 1..Len(ids) |->
            [name |-> "",
             msgs |-> WithDeltas(SortByTick(flat_events(track_events(T, ids[i]))))]]

\* A mutant: the file is saved before the tracks are named.
NameAndSaveAlways(tracks) ==
    [tracks |-> [i \in 1..Len(tracks) |->
                    IF i = 1 THEN [tracks[i] EXCEPT !.name = "RH"]
                    ELSE IF i = 2 THEN [tracks[i] EXCEPT !.name = "LH"]
                    ELSE tracks[i]],
     failed |-> Len(tracks) < 2,
     saved |-> TRUE]

\* tracks[0].name, tracks[1].name, save: naming a track that does not exist
\* raises IndexError and the file is not saved.
NameAndSave(tracks) ==
    [tracks |-> [i \in 1..Len(tracks) |->
                    IF i = 1 THEN [tracks[i] EXCEPT !.name = "RH"]
                    ELSE IF i = 2 THEN [tracks[i] EXCEPT !.name = "LH"]
                    ELSE tracks[i]],
     failed |-> Len(tracks) < 2,
     saved |-> Len(tracks) >= 2]

write_midi(T, in_track) == NameAndSave(BuildTracks(T, in_track))

(***************************************************************************)
(* The rule list of main, and a rule applied.                              *)
(***************************************************************************)
Composite(m, r) == [op |-> "replace_composite_notes", match_notes |-> m, replace_with |-> r]

Single(f, t) == [op |-> "replace_single_note", from_note |-> f, to_note |-> t]

NoteIfVel(f, v, t) == [op |-> "replace_note_if_velocity", from_note |-> f, from_vel |-> v, to_note |-> t]

VelIfVel(f, t) == [op |-> "replace_velocity_if_velocity", from_vel |-> f, to_vel |-> t]

NoteTrack(n, t) == [op |-> "replace_note_track", notes |-> n, to_track |-> t]

Hands(n, l, r) == [op |-> "assign_hands_for_note", notes |-> n, left_track |-> l, right_track |-> r]

Flam(f, v, t, l, r) == [op |-> "detect_flam", from_note |-> f, from_vel |-> v, to_note |-> t, left_track |-> l, right_track |-> r]

Track(f, t) == [op |-> "replace_track", from_track |-> f, to_track |-> t]

MainRules ==
    << Composite({110, 98}, 48), Composite({111, 99}, 45), Composite({112, 100}, 43),
       Single(96, 36), Single(95, 36), Single(97, 38), Single(98, 42),
       Single(99, 51), Single(100, 49),
       NoteIfVel(49, 127, 44), NoteIfVel(42, 127, 46), VelIfVel(1, 20),
       NoteTrack({38}, 5), Hands({38, 42}, 5, 6), Hands({38, 48, 45, 43}, 5, 6),
       Flam(38, 127, 38, 5, 6),
       Track(0, 2), Track(1, 2), Track(6, 2) >>

ApplyRule(r, T) ==
    CASE r.op = "replace_composite_notes" ->
            replace_composite_notes(T, r.match_notes, r.replace_with)
      [] r.op = "replace_single_note" ->
            replace_single_note(T, r.from_note, r.to_note)
      [] r.op = "replace_note_if_velocity" ->
            replace_note_if_velocity(T, r.from_note, r.from_vel, r.to_note)
      [] r.op = "replace_velocity_if_velocity" ->
            replace_velocity_if_velocity(T, r.from_vel, r.to_vel)
      [] r.op = "replace_note_track" ->
            replace_note_track(T, r.notes, r.to_track)
      [] r.op = "assign_hands_for_note" ->
            assign_hands_for_note(T, r.notes, r.left_track, r.right_track)
      [] r.op = "detect_flam" ->
            detect_flam(T, r.from_note, r.from_vel, r.to_note,
                        r.left_track, r.right_track)
      [] r.op = "replace_track" ->
            replace_track(T, r.from_track, r.to_track)

(***************************************************************************)
(* Inputs: at most MaxTracks tracks holding at most MaxMsgs messages in    *)
(* all, drawn from a set of messages.                                      *)
(***************************************************************************)
NoteOn(n, v, c, d) ==
    [type |-> "note_on", note |-> n, velocity |-> v, channel |-> c, time |-> d]

NoteOff(n, c, d) ==
    [type |-> "note_off", note |-> n, velocity |-> 0, channel |-> c, time |-> d]

Meta(d) ==
    [type |-> "meta", note |-> 0, velocity |-> 0, channel |-> 0, time |-> d]

RECURSIVE SeqsUpTo(_, _)
SeqsUpTo(M, n) ==
    IF n = 0 THEN {<<>>}
    ELSE LET shorter == SeqsUpTo(M, n - 1)
         IN  shorter \cup {Append(s, m) : s \in shorter, m \in M}

\* The files of exactly k tracks holding at most budget messages in all.
RECURSIVE TracksWith(_, _, _)
TracksWith(M, k, budget) ==
    IF k = 0 THEN {<<>>}
    ELSE UNION {{<<t>> \o rest : rest \in TracksWith(M, k - 1, budget - Len(t))} :
                   t \in SeqsUpTo(M, budget)}

Inputs(M) == UNION {TracksWith(M, k, MaxMsgs) : k \in 0..MaxTracks}

EmptyTable == [t \in {} |-> <<>>]

InitWith(M) ==
    /\ input \in Inputs(M)
    /\ tpb \in {EXPECTED_TPB, 480}
    /\ pc = "start"
    /\ events = EmptyTable
    /\ log = <<>>
    /\ wr = <<>>
    /\ file = FALSE
    /\ step = 0

(***************************************************************************)
(* The steps.                                                              *)
(***************************************************************************)
Read ==
    /\ pc = "start"
    /\ IF TpbAccepted(tpb)
       THEN pc' = "rules" /\ events' = read_midi_events(input)
       ELSE pc' = "failed" /\ events' = events
    /\ UNCHANGED <<tpb, input, log, wr, file, step>>

\* A rewrite pass may be called on the table as it stands; the log keeps
\* the call and the table it was given.
PassEnabled == pc = "rules" /\ Len(log) < MaxPasses

Logged(r) ==
    /\ log' = Append(log, [rule |-> r, before |-> events])
    /\ UNCHANGED <<tpb, input, pc, wr, file, step>>

ReplaceCompositeNotes(m, r) ==
    /\ PassEnabled
    /\ events' = replace_composite_notes(events, m, r)
    /\ Logged(Composite(m, r))

ReplaceSingleNote(f, t) ==
    /\ PassEnabled
    /\ events' = replace_single_note(events, f, t)
    /\ Logged(Single(f, t))

ReplaceNoteIfVelocity(f, v, t) ==
    /\ PassEnabled
    /\ events' = replace_note_if_velocity(events, f, v, t)
    /\ Logged(NoteIfVel(f, v, t))

ReplaceVelocityIfVelocity(f, t) ==
    /\ PassEnabled
    /\ events' = replace_velocity_if_velocity(events, f, t)
    /\ Logged(VelIfVel(f, t))

ReplaceNoteTrack(n, t) ==
    /\ PassEnabled
    /\ events' = replace_note_track(events, n, t)
    /\ Logged(NoteTrack(n, t))

AssignHandsForNote(n, l, r) ==
    /\ PassEnabled
    /\ events' = assign_hands_for_note(events, n, l, r)
    /\ Logged(Hands(n, l, r))

DetectFlam(f, v, t, l, r) ==
    /\ PassEnabled
    /\ events' = detect_flam(events, f, v, t, l, r)
    /\ Logged(Flam(f, v, t, l, r))

ReplaceTrack(f, t) ==
    /\ PassEnabled
    /\ events' = replace_track(events, f, t)
    /\ Logged(Track(f, t))

WriteMidi(in_track) ==
    /\ pc = "rules"
    /\ LET res == write_midi(events, in_track)
       IN  /\ wr' = <<[in_track |-> in_track, tracks |-> res.tracks]>>
           /\ file' = res.saved
           /\ pc' = IF res.failed THEN "failed" ELSE "done"
    /\ UNCHANGED <<tpb, input, events, log, step>>

\* main: the rules in their declared order, then write_midi(events, -1).
MainRule ==
    /\ pc = "rules"
    /\ step < Len(MainRules)
    /\ events' = ApplyRule(MainRules[step + 1], events)
    /\ step' = step + 1
    /\ UNCHANGED <<tpb, input, pc, log, wr, file>>

MainWrite ==
    /\ step = Len(MainRules)
    /\ WriteMidi(-1)

(***************************************************************************)
(* Specifications.  Each draws the input file from a set of messages that  *)
(* makes its operations' cases happen and calls the operations it is       *)
(* about; Spec calls every pass in any order, SpecMain runs main.          *)
(***************************************************************************)
PassMsgs ==
    {NoteOn(38, 127, 0, 0), NoteOn(42, 100, 0, 24), NoteOff(38, 0, 24)}

Init == InitWith(PassMsgs)

Next ==
    \/ Read
    \/ ReplaceCompositeNotes({38, 42}, 48)
    \/ ReplaceSingleNote(42, 38)
    \/ ReplaceNoteIfVelocity(38, 127, 42)
    \/ ReplaceVelocityIfVelocity(100, 127)
    \/ ReplaceNoteTrack({38}, 5)
    \/ AssignHandsForNote({38, 42}, 5, 6)
    \/ DetectFlam(38, 127, 38, 5, 6)
    \/ ReplaceTrack(0, 2)
    \/ WriteMidi(-1)

Spec == Init /\ [][Next]_vars

MainMsgs ==
    {NoteOn(n, 100, 0, d) : n \in {110, 98}, d \in {0, 24}}
        \cup {NoteOn(97, v, 0, d) : v \in {100, 127}, d \in {0, 24}}

InitMain == InitWith(MainMsgs)

NextMain == Read \/ MainRule \/ MainWrite

SpecMain == InitMain /\ [][NextMain]_vars

CompositeMsgs ==
    {NoteOn(n, 100, 0, d) : n \in {110, 98, 38}, d \in {0, 24}} \cup {Meta(0)}

InitComposite == InitWith(CompositeMsgs)

NextComposite ==
    \/ Read
    \/ \E m \in {{110, 98}, {110, 98, 38}} : ReplaceCompositeNotes(m, 48)

SpecComposite == InitComposite /\ [][NextComposite]_vars

HandMsgs == {NoteOn(n, 100, 0, d) : n \in {38, 42}, d \in {0, 24, 48}}

InitHands == InitWith(HandMsgs)

NextHands ==
    \/ Read
    \/ \E n \in {{38}, {38, 42}}, lr \in {<<5, 6>>, <<6, 5>>} :
          AssignHandsForNote(n, lr[1], lr[2])

SpecHands == InitHands /\ [][NextHands]_vars

FlamMsgs ==
    {NoteOn(38, v, 0, d) : v \in {100, 127}, d \in {0, 24}}
        \cup {NoteOn(42, 127, 0, 0), Meta(0)}

InitFlam == InitWith(FlamMsgs)

NextFlam ==
    \/ Read
    \/ \E v \in {100, 127}, t \in {38, 42} : DetectFlam(38, v, t, 5, 6)

SpecFlam == InitFlam /\ [][NextFlam]_vars

WriteMsgs ==
    {NoteOn(38, 100, 0, d) : d \in {0, 8}} \cup {NoteOn(42, 127, 9, d) : d \in {0, 8}}
        \cup {Meta(0), NoteOff(38, 0, 8)}

InitWrite == InitWith(WriteMsgs)

NextWrite ==
    \/ Read
    \/ DetectFlam(38, 100, 38, 1, 0)
    \/ \E ft \in {<<0, 1>>, <<1, 2>>} : ReplaceTrack(ft[1], ft[2])
    \/ \E i \in {-1, 0, 1} : WriteMidi(i)

SpecWrite == InitWrite /\ [][NextWrite]_vars

(***************************************************************************)
(* The claims.  Last is the latest logged pass: Last.rule its arguments,   *)
(* Last.before the table it was given; events is the table it left.        *)
(***************************************************************************)
Last == log[Len(log)]

LastIs(op) == Len(log) >= 1 /\ Last.rule.op = op

\* The note numbers of the note-ons of T at tick t.
NotesOnAt(T, t) ==
    {T[t][k].msg.note : k \in {j \in 1..Len(T[t]) : T[t][j].msg.type = "note_on"}}

\* C1: replace_composite_notes changes a tick's events if and only if every
\* member of match_notes is the note of some note-on at that tick; a tick
\* where only some members are present is left unchanged.
C1_FiresIffAllPresent ==
    LastIs("replace_composite_notes") =>
        \A t \in DOMAIN Last.before :
            (Last.rule.match_notes \subseteq NotesOnAt(Last.before, t))
                <=> (events[t] # Last.before[t])

\* The hits of the latest assign_hands_for_note call, and their cases.
HandHits == note_hits(Last.before, Last.rule.notes)

HitTrackAfter(i) == events[HandHits[i].tick][HandHits[i].idx].track

\* Case (a): on a beat or its half, and the next hit is 24 ticks later.
CaseA(i) ==
    /\ HandHits[i].tick % 96 \in {0, 48}
    /\ i + 1 <= Len(HandHits)
    /\ HandHits[i + 1].tick = HandHits[i].tick + 24

\* Case (b): neither on a beat nor on its half.
CaseB(i) == HandHits[i].tick % 96 \notin {0, 48}

\* C2 as stated: the hits of case (a) and the hits of case (b) all end on
\* one and the same track, the off-hand track.
C2_OneOffHandTrack ==
    LastIs("assign_hands_for_note") =>
        \A i, j \in 1..Len(HandHits) :
            ((CaseA(i) \/ CaseB(i)) /\ (CaseA(j) \/ CaseB(j)))
                => HitTrackAfter(i) = HitTrackAfter(j)

\* C2 as amended: every hit of case (a) ends on right_track and every hit
\* of case (b) ends on left_track.
C2_CaseARightCaseBLeft ==
    LastIs("assign_hands_for_note") =>
        \A i \in 1..Len(HandHits) :
            /\ CaseA(i) => HitTrackAfter(i) = Last.rule.right_track
            /\ CaseB(i) => HitTrackAfter(i) = Last.rule.left_track

C2_Witness ==
    /\ LastIs("assign_hands_for_note")
    /\ Last.rule.left_track # Last.rule.right_track
    /\ \E i, j \in 1..Len(HandHits) :
          /\ CaseA(i) /\ HitTrackAfter(i) = Last.rule.right_track
          /\ CaseB(j) /\ HitTrackAfter(j) = Last.rule.left_track

\* C3: write_midi never fails, and emits one track per track identifier of
\* the table (in_track < 0) or the one selected track (in_track >= 0, present).
C3_WriteMidiCompletes ==
    wr # <<>> =>
        /\ pc = "done"
        /\ wr[1].in_track < 0
              => Len(wr[1].tracks) = Cardinality(TrackIds(events))
        /\ (wr[1].in_track >= 0 /\ wr[1].in_track \in TrackIds(events))
              => Len(wr[1].tracks) = 1

\* The absolute tick of the k-th message of an output track.
RECURSIVE CumTick(_, _)
CumTick(msgs, k) == IF k = 0 THEN 0 ELSE CumTick(msgs, k - 1) + msgs[k].time

\* The note messages of all output tracks, as <<track, absolute tick, type, note>>.
OutNoteMsgs ==
    UNION {{<<i, CumTick(wr[1].tracks[i].msgs, k),
              wr[1].tracks[i].msgs[k].type, wr[1].tracks[i].msgs[k].note>> :
               k \in {j \in 1..Len(wr[1].tracks[i].msgs) :
                        wr[1].tracks[i].msgs[j].type \in {"note_on", "note_off"}}} :
           i \in 1..Len(wr[1].tracks)}

\* The input's only messages are note-ons 110 and 98, both at tick 0.
C4_Input ==
    /\ tpb = 96
    /\ LET T == read_midi_events(input)
       IN  /\ DOMAIN T = {0}
           /\ Len(T[0]) = 2
           /\ NotesOnAt(T, 0) = {110, 98}

\* C4: on such an input main succeeds and the output's only note messages
\* are note_on(48) at tick 0 and note_off(48) at tick DEFAULT_DURATION, on
\* one track.
C4_EndToEnd ==
    (C4_Input /\ pc \in {"done", "failed"}) =>
        /\ pc = "done"
        /\ file
        /\ \E i \in 1..Len(wr[1].tracks) :
              OutNoteMsgs = {<<i, 0, "note_on", 48>>,
                             <<i, DEFAULT_DURATION, "note_off", 48>>}

\* C5: in every output track each note_on at tick t has exactly one
\* note_off at t + DEFAULT_DURATION with its note and channel, velocity 0,
\* and there is no other note_off.
C5_NoteOffsPairNoteOns ==
    wr # <<>> =>
        \A i \in 1..Len(wr[1].tracks) :
            LET msgs == wr[1].tracks[i].msgs
                Of(type, t, m) ==
                    {k \in 1..Len(msgs) :
                        /\ msgs[k].type = type
                        /\ CumTick(msgs, k) = t
                        /\ msgs[k].note = m.note
                        /\ msgs[k].channel = m.channel}
            IN  \A k \in 1..Len(msgs) :
                    LET m == msgs[k]
                        t == CumTick(msgs, k)
                    IN  /\ m.type = "note_on" =>
                              Cardinality(Of("note_off", t + DEFAULT_DURATION, m))
                                 = Cardinality(Of("note_on", t, m))
                        /\ m.type = "note_off" =>
                              /\ m.velocity = 0
                              /\ Cardinality(Of("note_on", t - DEFAULT_DURATION, m))
                                    = Cardinality(Of("note_off", t, m))

C5_Witness ==
    /\ pc = "done"
    /\ \E i \in 1..Len(wr[1].tracks) :
          LET msgs == wr[1].tracks[i].msgs
          IN  \E k, l \in 1..Len(msgs) :
                 /\ k < l
                 /\ msgs[k].type = "note_on" /\ msgs[l].type = "note_on"
                 /\ CumTick(msgs, k) < CumTick(msgs, l)

\* C6: detect_flam adds to every tick one event per matching note-on; the
\* matching event and the added one have note to_note and velocity 100 and
\* differ only in track (right_track, left_track); the rest is unchanged.
C6_FlamAddsOnePerMatch ==
    LastIs("detect_flam") =>
        /\ DOMAIN events = DOMAIN Last.before
        /\ \A t \in DOMAIN Last.before :
              LET b == Last.before[t]
                  a == events[t]
                  r == Last.rule
                  matching == {k \in 1..Len(b) :
                                  /\ b[k].msg.type = "note_on"
                                  /\ b[k].msg.note = r.from_note
                                  /\ b[k].msg.velocity = r.from_vel}
                  Rank(k) == Cardinality({j \in matching : j <= k})
              IN  /\ Len(a) = Len(b) + Cardinality(matching)
                  /\ \A k \in 1..Len(b) :
                        IF k \in matching
                        THEN /\ a[k] = [b[k] EXCEPT !.msg.note = r.to_note,
                                                    !.msg.velocity = 100,
                                                    !.track = r.right_track]
                             /\ a[Len(b) + Rank(k)]
                                   = [a[k] EXCEPT !.track = r.left_track]
                        ELSE a[k] = b[k]

C6_Witness ==
    /\ LastIs("detect_flam")
    /\ Last.rule.to_note = Last.rule.from_note
    /\ \E t \in DOMAIN Last.before :
          /\ Len(events[t]) = Len(Last.before[t]) + 1
          /\ Len(Last.before[t]) >= 2

\* C7: the event table holds no note_off after read_midi_events and after
\* every rewrite pass.
C7_NoNoteOffInTable ==
    \A t \in DOMAIN events :
        \A k \in 1..Len(events[t]) : events[t][k].msg.type # "note_off"

C7_Witness ==
    /\ \E i \in 1..Len(input) :
          \E k \in 1..Len(input[i]) : input[i][k].type = "note_off"
    /\ Len(log) >= 2
    /\ log[1].rule.op # log[2].rule.op
    /\ DOMAIN events # {}

\* C8: in main the file exists only once every rule has run and write_midi
\* has succeeded; a wrong ticks-per-beat fails before any pass runs; after
\* a failure of any step there is no file.
C8_FileOnlyAfterFullPipeline ==
    /\ file => (pc = "done" /\ step = Len(MainRules) /\ tpb = EXPECTED_TPB)
    /\ (pc # "start" /\ tpb # EXPECTED_TPB)
          => (pc = "failed" /\ step = 0 /\ events = EmptyTable /\ wr = <<>>)
    /\ pc = "failed" => ~file

C8_Witness ==
    /\ pc = "failed"
    /\ tpb = EXPECTED_TPB
    /\ step = Len(MainRules)
    /\ wr # <<>>
    /\ ~file

\* Two successive assign_hands_for_note calls with the same hand tracks.
TwoHandCalls ==
    /\ Len(log) = 2
    /\ log[1].rule.op = "assign_hands_for_note"
    /\ log[2].rule.op = "assign_hands_for_note"
    /\ log[1].rule.left_track = log[2].rule.left_track
    /\ log[1].rule.right_track = log[2].rule.right_track

\* C9 as stated: after calls with note sets A then B, every hit with note
\* in B is on the track the B call alone gives it.
C9_LaterCallOverrides ==
    TwoHandCalls =>
        LET alone == assign_hands_for_note(log[1].before, log[2].rule.notes,
                         log[2].rule.left_track, log[2].rule.right_track)
        IN  \A i \in 1..Len(HandHits) :
                HitTrackAfter(i) = alone[HandHits[i].tick][HandHits[i].idx].track

\* C9 as amended: the B call sets the track of its hits of case (a) to
\* right_track and of case (b) to left_track, whatever the A call gave
\* them, and every other hit of B keeps the track it had after the A call.
C9_LaterCallOverridesMovedHits ==
    TwoHandCalls =>
        \A i \in 1..Len(HandHits) :
            HitTrackAfter(i) =
                IF CaseA(i) THEN Last.rule.right_track
                ELSE IF CaseB(i) THEN Last.rule.left_track
                ELSE Last.before[HandHits[i].tick][HandHits[i].idx].track

C9_Witness ==
    /\ TwoHandCalls
    /\ log[1].rule.notes # log[2].rule.notes
    /\ \E i \in 1..Len(HandHits) :
          /\ ~CaseA(i) /\ ~CaseB(i)
          /\ HitTrackAfter(i) = Last.rule.right_track
          /\ HitTrackAfter(i)
                # log[1].before[HandHits[i].tick][HandHits[i].idx].track

\* C10: an output track holds the entries of flat_events in ascending tick
\* order, entries of one tick in the order of their insertion; each delta
\* is >= 0 and the deltas up to a message add up to its absolute tick.
C10_SortedStableDeltas ==
    wr # <<>> =>
        LET ids == EmittedIds(events, wr[1].in_track)
        IN  /\ Len(wr[1].tracks) = Len(ids)
            /\ \A i \in 1..Len(ids) :
                  LET pre == flat_events(track_events(events, ids[i]))
                      msgs == wr[1].tracks[i].msgs
                      Rank(j) ==
                          Cardinality({k \in 1..Len(pre) : pre[k].tick < pre[j].tick})
                            + Cardinality({k \in 1..j : pre[k].tick = pre[j].tick})
                  IN  /\ Len(msgs) = Len(pre)
                      /\ \A k \in 1..Len(msgs) : msgs[k].time >= 0
                      /\ \A k \in 2..Len(msgs) :
                            CumTick(msgs, k - 1) <= CumTick(msgs, k)
                      /\ \A j \in 1..Len(pre) :
                            /\ CumTick(msgs, Rank(j)) = pre[j].tick
                            /\ [msgs[Rank(j)] EXCEPT !.time = 0]
                                  = [pre[j].msg EXCEPT !.time = 0]

C10_Witness ==
    /\ pc = "done"
    /\ \E i \in 1..Len(wr[1].tracks) :
          LET msgs == wr[1].tracks[i].msgs
          IN  \E k \in 2..Len(msgs) :
                 /\ msgs[k].time = 0
                 /\ msgs[k - 1].type = "note_off"
                 /\ msgs[k].type = "note_on"

====
